---- MODULE Spec2Model ----
(***************************************************************************)
(* The three fixed-interval samplers of flent's misc/ directory:           *)
(* file_iterate, tc_iterate and wifistats_iterate.  One behaviour of the   *)
(* model is one run of one of the three programs, chosen in Init.          *)
(***************************************************************************)
EXTENDS Integers, Sequences, FiniteSets, TLC

(* ------------------------------------------------------------------ *)
(* Program constants                                                   *)
(* ------------------------------------------------------------------ *)

BUFFERSIZE == 1048576

\* the reserve that result() compares bufsize - size against
MARGIN == 40

\* sizeof("Buffer Overrun\n"): 15 characters and the terminating NUL
OVERRUN_LEN == 16

STDOUT_FILENO == 1

STDERR_FILENO == 2

\* the limit run() passes to stations_open
STATION_LIMIT == 512


NSEC_PER_SEC == 1000000000

(* ------------------------------------------------------------------ *)
(* Bounds of the model                                                 *)
(* ------------------------------------------------------------------ *)

\* tick targets 0..MaxCount
MaxCount == 2

\* the most periods one successful read of the timer reports
MaxFired == 2

\* the most iterations of a sampling loop that are explored
MaxIter == 2

\* the most entries of the stations directory
MaxStations == 2

\* wall clock (seconds) when the run starts
StartSec == 1478044799

(* ------------------------------------------------------------------ *)
(* Names                                                               *)
(* ------------------------------------------------------------------ *)

FILE == "file_iterate"

TC == "tc_iterate"

WIFI == "wifistats_iterate"

Programs == {FILE, TC, WIFI}

NULL == "NULL"

\* the value of a long that was never assigned: whatever the stack held
GarbageFired == {-1, 0, MaxFired + 1}

\* file descriptor mkstemp returns on success (the lowest free one), and its
\* failure value
TMPFD == STDERR_FILENO + 1

MkstempResults == {TMPFD, -1}

\* the timer period given with -I: positive, zero, or negative
Intervals == {"positive", "zero", "negative"}

\* wall clock: one step of ClockStep nanoseconds passes per wait on the timer
ClockStep == NSEC_PER_SEC \div 2

\* the clock when the run starts, in nanoseconds of the first second read
StartNsec == NSEC_PER_SEC - ClockStep

(* ------------------------------------------------------------------ *)
(* Formatting: what sprintf("%ld") and sprintf("%09ld") produce          *)
(* ------------------------------------------------------------------ *)

Digit(d) == CASE d = 0 -> "0" [] d = 1 -> "1" [] d = 2 -> "2" [] d = 3 -> "3"
              [] d = 4 -> "4" [] d = 5 -> "5" [] d = 6 -> "6" [] d = 7 -> "7"
              [] d = 8 -> "8" [] d = 9 -> "9"

RECURSIVE Dec(_)
Dec(n) == IF n < 10 THEN Digit(n) ELSE Dec(n \div 10) \o Digit(n % 10)

RECURSIVE ZeroPad(_, _)
ZeroPad(s, w) == IF Len(s) >= w THEN s ELSE ZeroPad("0" \o s, w)

\* "Time: %ld.%09ld\n"
TimeLine(t) == "Time: " \o Dec(t.sec) \o "." \o ZeroPad(Dec(t.nsec), 9) \o "\n"

SepLine == "---\n"

TimeSeg(t) == [kind |-> "time", len |-> Len(TimeLine(t)), text |-> TimeLine(t)]

SepSeg == [kind |-> "sep", len |-> Len(SepLine), text |-> SepLine]

\* the first size bytes of the working buffer; text is what the model tracks
\* of them (leading bytes of a file, or the pieces of text of a response)
PayloadSeg(size, text) == [kind |-> "payload", len |-> size, text |-> text]

RECURSIVE SumLen(_)
SumLen(segs) == IF segs = <<>> THEN 0 ELSE Head(segs).len + SumLen(Tail(segs))

Min(x, y) == IF x < y THEN x ELSE y


(* ------------------------------------------------------------------ *)
(* State                                                               *)
(* ------------------------------------------------------------------ *)

VARIABLES
    prog,        \* which of the three programs this run is
    a,           \* args: count, buffer, interval, filename, dev
    pc,          \* where the process is: start, loop, wrote, flush, done,
                 \*   exited (exit(-1)), killed (a signal from outside),
                 \*   sigpipe (killed by SIGPIPE), blocked (in a read that never returns)
    out,         \* the sink descriptor
    timer,       \* none, armed, unarmed
    ctr,         \* the cumulative tick counter
    size,        \* the size of the last capture
    buffer,      \* the leading bytes of the working buffer
    iters,       \* waits on the timer so far
    now,         \* the wall clock
    stdout,      \* the segments written to standard output, in order
    scratch,     \* the segments written to the scratch file, in order
    tmpVisible,  \* the scratch file's name exists in the filesystem
    errs,        \* the diagnostics written to standard error
    exitStatus,  \* the exit status, -1 while running
    emitted,     \* the write calls result() has made on the sink descriptor
    lastWrite,   \* the write call of the last result()
    tread,       \* the outcome of the last read of the timer: none, ok, fail
    fired,       \* what the last read of the timer left in fired and was added to ctr
    tfails,      \* some read of the timer has failed
    c,           \* wifistats_iterate: the station count run() holds
    file,        \* file_iterate: the content of the configured path
    child,       \* tc_iterate: none, forked, tc, wedged, exited
    startFailed, \* tc_iterate: fork failed or the child's exec failed
    sigIgn,      \* tc_iterate: SIGPIPE is ignored (inherited disposition)
    cmds,        \* tc_iterate: command lines in the pipe to the child
    resp,        \* tc_iterate: response text in the pipe from the child
    stations,    \* wifistats_iterate: the station records
    fdt,         \* file_iterate, wifistats_iterate: the descriptor table
    caps,        \* file_iterate: the captures read_once() has made, in order
    calls,       \* the calls of result() made in the sampling loop
    reported,    \* the sum of the counts the successful reads of the timer gave
    foreign,     \* wifistats_iterate: open descriptors stations_reset() closed
                 \*   that it had not opened for the station at hand
    peak,        \* wifistats_iterate: the most stream handles one station has
                 \*   had open at the same time
    slen,        \* wifistats_iterate: the lengths of a station's two stream files
    nalloc,      \* wifistats_iterate: station records run() allocated
    nwritten,    \* wifistats_iterate: station records stations_open() wrote to
    answered,    \* tc_iterate: command lines the child has answered in full
    part         \* tc_iterate: pieces of the next response the child has written

vars == <<prog, a, pc, out, timer, ctr, size, buffer, iters, now, stdout,
          scratch, tmpVisible, errs, exitStatus, emitted, lastWrite, tread,
          fired, tfails, c, file, child, startFailed, sigIgn, cmds, resp,
          stations, fdt, caps, calls, reported, foreign, peak, slen, nalloc,
          nwritten, answered, part>>

(* ------------------------------------------------------------------ *)
(* Descriptors                                                         *)
(* ------------------------------------------------------------------ *)

\* the descriptor numbers the table tracks: 0 .. FdLimit - 1, enough for the
\* sink, the timer, two streams per station and one source per capture
FdLimit == TMPFD + 2 * MaxStations + MaxIter + 2

Fds == 0..(FdLimit - 1)

\* an entry of the table: what the descriptor refers to, the station whose
\* stream it is (mac), and the iteration in which it was opened (tick)
Entry(what, mac, tick) == [what |-> what, mac |-> mac, tick |-> tick]

Free == Entry("free", "", 0)

\* the table a process starts with: the three standard streams
StdTable == [fd \in Fds |-> CASE fd = 0 -> Entry("stdin", "", 0)
                              [] fd = STDOUT_FILENO -> Entry("stdout", "", 0)
                              [] fd = STDERR_FILENO -> Entry("stderr", "", 0)
                              [] OTHER -> Free]

IsOpen(t, fd) == fd \in DOMAIN t /\ t[fd].what # "free"

\* open(), mkstemp(), timerfd_create(): the lowest free number, -1 when the
\* call fails or none is free
LowestFree(t) ==
    IF \E fd \in DOMAIN t : t[fd].what = "free"
    THEN CHOOSE fd \in DOMAIN t :
            /\ t[fd].what = "free"
            /\ \A g \in DOMAIN t : t[g].what = "free" => fd <= g
    ELSE -1

open_at(tv, ok, e) ==
    LET fd == IF ok THEN LowestFree(tv) ELSE -1
    IN  [fd |-> fd, fdt |-> IF fd = -1 THEN tv ELSE [tv EXCEPT ![fd] = e]]

\* open() on table t; t is bound once, as it may be a long chain of closes
\* and opens
OpenAs(t, ok, e) == CHOOSE r \in {open_at(tv, ok, e) : tv \in {t}} : TRUE

\* close(fd): a number that is no open descriptor leaves the table as it is
Close(t, fd) == IF IsOpen(t, fd) THEN [t EXCEPT ![fd] = Free] ELSE t

\* the table behind the start of run(): the sink (mkstemp gave descriptor o,
\* or the sink is standard output) and the timer
WithSink(t, o) == IF o = TMPFD THEN [t EXCEPT ![o] = Entry("scratch", "", 0)] ELSE t

WithTimer(t) == OpenAs(t, TRUE, Entry("timer", "", 0)).fdt

\* the descriptor timerfd_create() returned
timer_fd(o) == IF o = TMPFD THEN TMPFD + 1 ELSE TMPFD

OpenCount(t, what) == Cardinality({fd \in DOMAIN t : t[fd].what = what})

(* ------------------------------------------------------------------ *)
(* The environment's choices                                           *)
(* ------------------------------------------------------------------ *)

\* the bytes of "42\n"
Bytes42 == <<52, 50, 10>>

\* the number of leading bytes of a file and of the working buffer that are tracked
Window == Len(Bytes42)

\* contents of the configured path: empty, "42\n", and one that leaves
\* exactly MARGIN bytes of the working buffer
Files == { [len |-> 0, bytes |-> <<>>],
           [len |-> Len(Bytes42), bytes |-> Bytes42],
           [len |-> BUFFERSIZE - MARGIN, bytes |-> <<55, 55, 55>>] }

\* how the kernel may split the reads of a file: the sizes read() returns
\* before it returns 0
Chunks(f) == IF f.len = 0 THEN { <<>> }
             ELSE IF f.len > Window THEN { <<f.len>> }
             ELSE { <<f.len>> } \cup { <<1, f.len - 1>> }

\* what one read of the timer can yield: the count of elapsed periods, or a
\* failure that leaves the variable unassigned
TimerReads == [ok : {TRUE}, fired : 1..MaxFired]
                \cup [ok : {FALSE}, fired : GarbageFired]

Tick(t) == IF t.nsec + ClockStep >= NSEC_PER_SEC
           THEN [sec |-> t.sec + 1, nsec |-> t.nsec + ClockStep - NSEC_PER_SEC]
           ELSE [sec |-> t.sec, nsec |-> t.nsec + ClockStep]

NoWrite == [fd |-> 0, len |-> 0, segs |-> <<>>]

(* ------------------------------------------------------------------ *)
(* usage() and the writes                                              *)
(* ------------------------------------------------------------------ *)

\* the first line usage() prints on standard output (the option lines follow)
UsageSeg(p) == [kind |-> "usage", len |-> Len(p \o " [options]\n"),
                text |-> p \o " [options]\n"]

\* exit(-1) is seen by the parent as status 255
EXIT_FAILURE_STATUS == 255

\* write(fd, ...) and writev(fd, ...): where the segments go
SinkAfter(sink, fd, w) == IF w.fd = fd THEN sink \o w.segs ELSE sink

\* lseek(out, 0, SEEK_SET) and read(out, ...) until it returns 0: the whole
\* scratch file, or nothing when out is no descriptor
ReadBack(fd) == IF fd = TMPFD THEN scratch ELSE <<>>

WarnSeg == [kind |-> "warn", len |-> OVERRUN_LEN, text |-> "Buffer Overrun\n"]

(* ------------------------------------------------------------------ *)
(* result()                                                            *)
(* ------------------------------------------------------------------ *)

\* the pieces of text in the first sz bytes of a buffer that holds pieces
Taken(pieces, sz) == IF sz = 0 THEN <<>> ELSE pieces

RECURSIVE TextLen(_)
TextLen(pieces) == IF pieces = <<>> THEN 0
                   ELSE Len(Head(pieces)) + TextLen(Tail(pieces))

\* file_result with the guard taken as "at least MARGIN bytes are left"
file_result_inclusive(o, sz, bufsize, buf, t) ==
    IF bufsize - sz >= MARGIN
    THEN LET added == Len(TimeLine(t) \o SepLine)
         IN  [fd |-> o, len |-> sz + added,
              segs |-> <<PayloadSeg(sz, SubSeq(buf, 1, Min(sz, Len(buf)))),
                         TimeSeg(t), SepSeg>>]
    ELSE [fd |-> STDERR_FILENO, len |-> OVERRUN_LEN, segs |-> <<WarnSeg>>]

\* file_result with the timestamp put in front of the payload
file_result_time_first(o, sz, bufsize, buf, t) ==
    IF bufsize - sz > MARGIN
    THEN LET added == Len(TimeLine(t) \o SepLine)
         IN  [fd |-> o, len |-> sz + added,
              segs |-> <<TimeSeg(t),
                         PayloadSeg(sz, SubSeq(buf, 1, Min(sz, Len(buf)))),
                         SepSeg>>]
    ELSE [fd |-> STDERR_FILENO, len |-> OVERRUN_LEN, segs |-> <<WarnSeg>>]

\* file_iterate: the timestamp and the separator are printed into the working
\* buffer behind the payload and the whole is written with one write
file_result(o, sz, bufsize, buf, t) ==
    IF bufsize - sz > MARGIN
    THEN LET added == Len(TimeLine(t) \o SepLine)
         IN  [fd |-> o, len |-> sz + added,
              segs |-> <<PayloadSeg(sz, SubSeq(buf, 1, Min(sz, Len(buf)))),
                         TimeSeg(t), SepSeg>>]
    ELSE [fd |-> STDERR_FILENO, len |-> OVERRUN_LEN, segs |-> <<WarnSeg>>]

\* tc_iterate: the same function
tc_result(o, sz, bufsize, buf, t) ==
    IF bufsize - sz > MARGIN
    THEN LET added == Len(TimeLine(t) \o SepLine)
         IN  [fd |-> o, len |-> sz + added,
              segs |-> <<PayloadSeg(sz, Taken(buf, sz)), TimeSeg(t), SepSeg>>]
    ELSE [fd |-> STDERR_FILENO, len |-> OVERRUN_LEN, segs |-> <<WarnSeg>>]

\* wifistats_iterate: one writev of three segments
wifi_result(o, sz, bufsize, buf, t) ==
    LET iov == <<TimeSeg(t), PayloadSeg(sz, Taken(buf, sz)), SepSeg>>
    IN  IF bufsize - sz > MARGIN
        THEN [fd |-> o, len |-> SumLen(iov), segs |-> iov]
        ELSE [fd |-> STDERR_FILENO, len |-> OVERRUN_LEN, segs |-> <<WarnSeg>>]

\* the diagnostics of a result(): the overrun warning, and in wifistats_iterate
\* the perror of a writev that failed
ResultErrs(p, w) ==
    (IF w.fd = STDERR_FILENO THEN {"Buffer Overrun"} ELSE {})
    \cup (IF p = WIFI /\ w.fd = -1 THEN {"Write failed - out of disk?"} ELSE {})

\* the write calls made on the sink descriptor
EmittedAfter(w) == IF w.fd = STDERR_FILENO THEN emitted ELSE Append(emitted, w)

(* ------------------------------------------------------------------ *)
(* file_iterate                                                        *)
(* ------------------------------------------------------------------ *)

\* read_once(): open, then read() into the start of the buffer until it
\* returns 0, adding up what was read.  opened = FALSE: the open failed, and
\* read() on the invalid descriptor fails at once.
RECURSIVE read_loop(_, _, _, _, _, _)
read_loop(content, off, chunks, buf, bufsize, len) ==
    IF chunks = <<>> \/ bufsize - len = 0
    THEN [len |-> len, buffer |-> buf]
    ELSE LET r == Min(Head(chunks), bufsize - len)
             got == SubSeq(content.bytes, Min(off, Window) + 1, Min(off + r, Window))
         IN  read_loop(content, off + r, Tail(chunks),
                       got \o SubSeq(buf, Len(got) + 1, Len(buf)), bufsize, len + r)

read_once(opened, content, chunks, buf, bufsize) ==
    IF ~opened THEN [opened |-> FALSE, len |-> 0, buffer |-> buf]
    ELSE LET r == read_loop(content, 0, chunks, buf, bufsize, 0)
         IN  [opened |-> TRUE, len |-> r.len, buffer |-> r.buffer]

\* the descriptor read_once() opened stays in the table when it returns
SourceOpened(t, cap, tick) ==
    IF cap.opened THEN OpenAs(t, TRUE, Entry("source", "", tick)).fdt ELSE t

\* file_emit passing the capacity as the size when nothing was read
file_emit_no_empty(o, cap, t) ==
    IF cap.len > 0
    THEN file_result(o, cap.len, BUFFERSIZE, cap.buffer, t)
    ELSE file_result(o, BUFFERSIZE, BUFFERSIZE, cap.buffer, t)

\* the body of run()'s loop behind the capture: result() with the size read,
\* or with 0 when nothing was read
file_emit(o, cap, t) ==
    IF cap.len > 0
    THEN file_result(o, cap.len, BUFFERSIZE, cap.buffer, t)
    ELSE file_result(o, 0, BUFFERSIZE, cap.buffer, t)

\* file_again leaving the loop one tick early
file_again_early(n, count) == n + 1 < count

\* while (ctr < a->count)
file_again(n, count) == n < count

\* the captures the environment allows: the open fails, or the file is read
\* in one of its splits
Captures(buf) ==
    { read_once(FALSE, file, <<>>, buf, BUFFERSIZE) }
    \cup { read_once(TRUE, file, ch, buf, BUFFERSIZE) : ch \in Chunks(file) }

\* run(), to the arming of the timer
FileRunStart ==
    /\ prog = FILE /\ pc = "start"
    /\ \E fd \in (IF a.buffer THEN MkstempResults ELSE {STDOUT_FILENO}),
          cap \in Captures(buffer) :
        /\ out' = fd
        /\ tmpVisible' = (a.buffer /\ fd # -1)
        /\ IF a.buffer /\ fd = 0
           THEN /\ errs' = errs \cup {"Unable to create tmpfile"}
                /\ pc' = "exited" /\ exitStatus' = EXIT_FAILURE_STATUS
                /\ UNCHANGED <<stdout, buffer, timer, fdt, caps>>
           ELSE IF a.filename = NULL
           THEN /\ errs' = errs \cup {"Must specify filename"}
                /\ stdout' = Append(stdout, UsageSeg(FILE))
                /\ pc' = "exited" /\ exitStatus' = EXIT_FAILURE_STATUS
                /\ fdt' = WithSink(fdt, fd)
                /\ UNCHANGED <<buffer, timer, caps>>
           ELSE IF cap.len <= 0
           THEN /\ errs' = errs \cup {"Unable to read file"}
                /\ buffer' = cap.buffer
                /\ fdt' = SourceOpened(WithTimer(WithSink(fdt, fd)), cap, 0)
                /\ caps' = Append(caps, cap)
                /\ pc' = "exited" /\ exitStatus' = EXIT_FAILURE_STATUS
                /\ UNCHANGED <<stdout, timer>>
           ELSE /\ buffer' = cap.buffer
                /\ fdt' = SourceOpened(WithTimer(WithSink(fdt, fd)), cap, 0)
                /\ caps' = Append(caps, cap)
                /\ timer' = IF a.interval = "positive" THEN "armed" ELSE "unarmed"
                /\ pc' = "loop"
                /\ UNCHANGED <<stdout, errs, exitStatus>>
    /\ UNCHANGED <<fired, tfails, c, calls, reported, foreign, peak>>
    /\ UNCHANGED <<nalloc, nwritten, answered, part>>
    /\ UNCHANGED <<slen, prog, a, ctr, size, iters, now, scratch, emitted, lastWrite,
                   tread, file, child, startFailed, sigIgn, cmds, resp, stations>>

\* one iteration of run()'s do-while
FileRunLoop ==
    /\ prog = FILE /\ pc = "loop" /\ iters < MaxIter
    /\ IF timer # "armed"
       THEN /\ pc' = "blocked"
            /\ UNCHANGED <<ctr, size, buffer, iters, now, stdout, scratch, errs,
                           emitted, lastWrite, tread, fired, tfails, fdt, caps,
                           calls, reported>>
       ELSE \E tr \in TimerReads, cap \in Captures(buffer) :
              LET t == Tick(now)
                  w == file_emit(out, cap, t)
              IN  /\ tread' = IF tr.ok THEN "ok" ELSE "fail"
                  /\ fired' = tr.fired
                  /\ tfails' = (tfails \/ ~tr.ok)
                  /\ ctr' = ctr + tr.fired
                  /\ reported' = reported + (IF tr.ok THEN tr.fired ELSE 0)
                  /\ fdt' = SourceOpened(fdt, cap, iters + 1)
                  /\ caps' = Append(caps, cap)
                  /\ calls' = calls + 1
                  /\ iters' = iters + 1
                  /\ now' = t
                  /\ size' = cap.len
                  /\ buffer' = cap.buffer
                  /\ lastWrite' = w
                  /\ emitted' = EmittedAfter(w)
                  /\ stdout' = SinkAfter(stdout, STDOUT_FILENO, w)
                  /\ scratch' = SinkAfter(scratch, TMPFD, w)
                  /\ errs' = errs \cup ResultErrs(FILE, w)
                            \cup (IF tr.ok THEN {} ELSE {"reading timer"})
                            \cup (IF cap.len > 0 THEN {} ELSE {"reading file"})
                  /\ pc' = IF file_again(ctr', a.count) THEN "loop" ELSE "flush"
    /\ UNCHANGED <<c, foreign, peak>>
    /\ UNCHANGED <<nalloc, nwritten, answered, part>>
    /\ UNCHANGED <<slen, prog, a, out, timer, tmpVisible, exitStatus, file, child,
                   startFailed, sigIgn, cmds, resp, stations>>

\* run(), after the loop: the staged output is copied, the scratch file unlinked
FileRunFlush ==
    /\ prog = FILE /\ pc = "flush"
    /\ stdout' = IF a.buffer THEN stdout \o ReadBack(out) ELSE stdout
    /\ tmpVisible' = IF a.buffer THEN FALSE ELSE tmpVisible
    /\ fdt' = Close(fdt, out)
    /\ pc' = "done" /\ exitStatus' = 0
    /\ UNCHANGED <<fired, tfails, c, caps, calls, reported, foreign, peak>>
    /\ UNCHANGED <<nalloc, nwritten, answered, part>>
    /\ UNCHANGED <<slen, prog, a, out, timer, ctr, size, buffer, iters, now, scratch,
                   errs, emitted, lastWrite, tread, file, child, startFailed,
                   sigIgn, cmds, resp, stations>>


(* ------------------------------------------------------------------ *)
(* tc_iterate                                                          *)
(* ------------------------------------------------------------------ *)

\* while (ctr < a->count)
tc_again(n, count) == n < count

\* what tc prints for the k-th command line it reads; the statistics differ
\* from one command to the next.  tc writes it in one piece, or its head
\* first and its tail later
ResponseHead == "qdisc "

ResponseTail(k) == Dec(k) \o "\n"

Response(k) == ResponseHead \o ResponseTail(k)

\* the read end of the command pipe is open in some process
HasReader(ch) == ch \in {"forked", "tc", "wedged"}

\* forkit(), to the arming of the timer.  fork() fails (the parent goes on
\* with child = -1) or leaves a child that has yet to exec
ForkitStart ==
    /\ prog = TC /\ pc = "start"
    /\ \E fd \in (IF a.buffer THEN MkstempResults ELSE {STDOUT_FILENO}),
          forked \in BOOLEAN :
        /\ out' = fd
        /\ tmpVisible' = (a.buffer /\ fd # -1)
        /\ IF a.buffer /\ fd = 0
           THEN /\ errs' = errs \cup {"Unable to create tmpfile"}
                /\ pc' = "exited" /\ exitStatus' = EXIT_FAILURE_STATUS
                /\ UNCHANGED <<child, startFailed, timer>>
           ELSE /\ child' = IF forked THEN "forked" ELSE "none"
                /\ startFailed' = ~forked
                /\ timer' = IF a.interval = "positive" THEN "armed" ELSE "unarmed"
                /\ pc' = "loop"
                /\ UNCHANGED <<errs, exitStatus>>
    /\ UNCHANGED <<fired, tfails, c, fdt, caps, calls, reported, foreign, peak>>
    /\ UNCHANGED <<nalloc, nwritten, answered, part>>
    /\ UNCHANGED <<slen, prog, a, ctr, size, buffer, iters, now, stdout, scratch,
                   emitted, lastWrite, tread, file, sigIgn, cmds, resp, stations>>

\* the child: execlp("tc", ...) succeeds
ChildExecOk ==
    /\ prog = TC /\ child = "forked"
    /\ child' = "tc"
    /\ UNCHANGED <<fired, tfails, c, fdt, caps, calls, reported, foreign, peak>>
    /\ UNCHANGED <<nalloc, nwritten, answered, part>>
    /\ UNCHANGED <<slen, prog, a, pc, out, timer, ctr, size, buffer, iters, now,
                   stdout, scratch, tmpVisible, errs, exitStatus, emitted,
                   lastWrite, tread, file, startFailed, sigIgn, cmds, resp,
                   stations>>

\* the child: execlp fails, the child reports it and exits
ChildExecFail ==
    /\ prog = TC /\ child = "forked"
    /\ child' = "exited"
    /\ startFailed' = TRUE
    /\ errs' = errs \cup {"Failed to execute cmd"}
    /\ UNCHANGED <<fired, tfails, c, fdt, caps, calls, reported, foreign, peak>>
    /\ UNCHANGED <<nalloc, nwritten, answered, part>>
    /\ UNCHANGED <<slen, prog, a, pc, out, timer, ctr, size, buffer, iters, now,
                   stdout, scratch, tmpVisible, exitStatus, emitted, lastWrite,
                   tread, file, sigIgn, cmds, resp, stations>>

\* the pipe from the child once the tail of response k is written to it: the
\* pipe holds bytes, so a head that has not been read yet and its tail are
\* the whole response
PipeAfterTail(pipe, k) ==
    IF pipe # <<>> /\ pipe[Len(pipe)] = ResponseHead
    THEN [pipe EXCEPT ![Len(pipe)] = Response(k)]
    ELSE Append(pipe, ResponseTail(k))

\* tc writes to its standard output: the whole response to the command line
\* at hand, or the head of it, or the tail when the head is out already;
\* Ways is how far a write that starts a response can get
ChildRespondUpTo(Ways) ==
    /\ prog = TC /\ child = "tc" /\ cmds > 0
    /\ \E upto \in (IF part = 0 THEN Ways ELSE {"all"}) :
         /\ resp' = CASE upto = "head" -> Append(resp, ResponseHead)
                       [] part = 0 -> Append(resp, Response(answered + 1))
                       [] OTHER -> PipeAfterTail(resp, answered + 1)
         /\ part' = IF upto = "head" THEN 1 ELSE 0
         /\ answered' = IF upto = "all" THEN answered + 1 ELSE answered
         /\ cmds' = IF upto = "all" THEN cmds - 1 ELSE cmds
    /\ UNCHANGED <<fired, tfails, c, fdt, caps, calls, reported, foreign, peak>>
    /\ UNCHANGED <<nalloc, nwritten>>
    /\ UNCHANGED <<slen, prog, a, pc, out, timer, ctr, size, buffer, iters, now,
                   stdout, scratch, tmpVisible, errs, exitStatus, emitted,
                   lastWrite, tread, file, child, startFailed, sigIgn, stations>>

\* tc answers a command line with one write
ChildRespond == ChildRespondUpTo({"all"})

\* tc answers a command line with one write or with two
ChildRespondPieces == ChildRespondUpTo({"head", "all"})

\* tc exits: on its own while the parent samples, or at the end of its input
\* once the parent has closed the command pipe
ChildExit ==
    /\ prog = TC /\ child = "tc" /\ pc \in {"loop", "wrote", "reap"}
    /\ child' = "exited"
    /\ cmds' = 0
    /\ UNCHANGED <<fired, tfails, c, fdt, caps, calls, reported, foreign, peak>>
    /\ UNCHANGED <<nalloc, nwritten, answered, part>>
    /\ UNCHANGED <<slen, prog, a, pc, out, timer, ctr, size, buffer, iters, now,
                   stdout, scratch, tmpVisible, errs, exitStatus, emitted,
                   lastWrite, tread, file, startFailed, sigIgn, resp, stations>>

\* tc stops reading and writing without exiting
ChildWedge ==
    /\ prog = TC /\ child = "tc" /\ pc \in {"loop", "wrote"}
    /\ child' = "wedged"
    /\ UNCHANGED <<fired, tfails, c, fdt, caps, calls, reported, foreign, peak>>
    /\ UNCHANGED <<nalloc, nwritten, answered, part>>
    /\ UNCHANGED <<slen, prog, a, pc, out, timer, ctr, size, buffer, iters, now,
                   stdout, scratch, tmpVisible, errs, exitStatus, emitted,
                   lastWrite, tread, file, startFailed, sigIgn, cmds, resp,
                   stations>>

\* the head of an iteration: write(tool, cmd, csize).  With no reader left the
\* write raises SIGPIPE, which ends the process unless the signal is ignored
ForkitWrite ==
    /\ prog = TC /\ pc = "loop" /\ iters < MaxIter
    /\ IF HasReader(child)
       THEN /\ cmds' = cmds + 1
            /\ pc' = "wrote"
            /\ UNCHANGED errs
       ELSE IF sigIgn
       THEN /\ errs' = errs \cup {"writing cmd"}
            /\ pc' = "wrote"
            /\ UNCHANGED cmds
       ELSE /\ pc' = "sigpipe"
            /\ UNCHANGED <<cmds, errs>>
    /\ UNCHANGED <<fired, tfails, c, fdt, caps, calls, reported, foreign, peak>>
    /\ UNCHANGED <<nalloc, nwritten, answered, part>>
    /\ UNCHANGED <<slen, prog, a, out, timer, ctr, size, buffer, iters, now, stdout,
                   scratch, tmpVisible, exitStatus, emitted, lastWrite, tread,
                   file, child, startFailed, sigIgn, resp, stations>>

\* the rest of the iteration: the read of the timer, one read of the child's
\* output, result().  The read of the pipe returns what is in it, returns 0
\* when it is empty and no writer is left, and otherwise waits
ForkitSampleOn(Reads) ==
    /\ prog = TC /\ pc = "wrote"
    /\ resp # <<>> \/ child \in {"none", "exited", "wedged"} \/ timer # "armed"
    /\ IF timer # "armed"
       THEN /\ pc' = "blocked"
            /\ UNCHANGED <<ctr, size, buffer, iters, now, stdout, scratch, errs,
                           emitted, lastWrite, tread, fired, tfails, resp,
                           calls, reported>>
       ELSE \E tr \in Reads :
              LET t == Tick(now)
                  n == TextLen(resp)
                  w == IF n > 0
                       THEN tc_result(out, n, BUFFERSIZE, resp, t)
                       ELSE tc_result(out, 0, BUFFERSIZE, buffer, t)
              IN  /\ tread' = IF tr.ok THEN "ok" ELSE "fail"
                  /\ fired' = tr.fired
                  /\ tfails' = (tfails \/ ~tr.ok)
                  /\ ctr' = ctr + tr.fired
                  /\ reported' = reported + (IF tr.ok THEN tr.fired ELSE 0)
                  /\ iters' = iters + 1
                  /\ now' = t
                  /\ IF n = 0 /\ child = "wedged"
                     THEN /\ pc' = "blocked"
                          /\ errs' = errs \cup (IF tr.ok THEN {} ELSE {"reading timer"})
                          /\ UNCHANGED <<size, buffer, stdout, scratch, emitted,
                                         lastWrite, resp, calls>>
                     ELSE /\ size' = n
                          /\ calls' = calls + 1
                          /\ buffer' = IF n > 0 THEN resp ELSE buffer
                          /\ resp' = <<>>
                          /\ lastWrite' = w
                          /\ emitted' = EmittedAfter(w)
                          /\ stdout' = SinkAfter(stdout, STDOUT_FILENO, w)
                          /\ scratch' = SinkAfter(scratch, TMPFD, w)
                          /\ errs' = errs \cup ResultErrs(TC, w)
                                \cup (IF tr.ok THEN {} ELSE {"reading timer"})
                                \cup (IF n > 0 THEN {} ELSE {"reading cmd output"})
                          /\ pc' = IF tc_again(ctr', a.count) THEN "loop" ELSE "flush"
    /\ UNCHANGED <<c, fdt, caps, foreign, peak>>
    /\ UNCHANGED <<nalloc, nwritten, answered, part>>
    /\ UNCHANGED <<slen, prog, a, out, timer, tmpVisible, exitStatus, file, child,
                   startFailed, sigIgn, cmds, stations>>

\* the rest of the iteration, the timer read with every outcome
ForkitSample == ForkitSampleOn(TimerReads)

\* the rest of the iteration when one period has passed at each wait
ForkitSampleSteady == ForkitSampleOn({ [ok |-> TRUE, fired |-> 1] })

\* forkit(), after the loop: both pipe ends are closed, the staged output is
\* copied, the scratch file unlinked, the sink closed
ForkitFlush ==
    /\ prog = TC /\ pc = "flush"
    /\ stdout' = IF a.buffer THEN stdout \o ReadBack(out) ELSE stdout
    /\ tmpVisible' = IF a.buffer THEN FALSE ELSE tmpVisible
    /\ pc' = "reap"
    /\ UNCHANGED <<fired, tfails, c, fdt, caps, calls, reported, foreign, peak>>
    /\ UNCHANGED <<nalloc, nwritten, answered, part>>
    /\ UNCHANGED <<slen, prog, a, out, timer, ctr, size, buffer, iters, now, scratch,
                   errs, exitStatus, emitted, lastWrite, tread, file, child,
                   startFailed, sigIgn, cmds, resp, stations>>

\* wait(NULL) returns: the child has exited, or there never was one
ForkitReap ==
    /\ prog = TC /\ pc = "reap"
    /\ child \in {"none", "exited"}
    /\ pc' = "done" /\ exitStatus' = 0
    /\ UNCHANGED <<fired, tfails, c, fdt, caps, calls, reported, foreign, peak>>
    /\ UNCHANGED <<nalloc, nwritten, answered, part>>
    /\ UNCHANGED <<slen, prog, a, out, timer, ctr, size, buffer, iters, now, stdout,
                   scratch, tmpVisible, errs, emitted, lastWrite, tread, file,
                   child, startFailed, sigIgn, cmds, resp, stations>>

\* a terminating signal from outside while the process samples; none of the
\* three programs installs a handler
Terminate ==
    /\ pc \in {"loop", "wrote"}
    /\ pc' = "killed"
    /\ UNCHANGED <<fired, tfails, c, fdt, caps, calls, reported, foreign, peak>>
    /\ UNCHANGED <<nalloc, nwritten, answered, part>>
    /\ UNCHANGED <<slen, prog, a, out, timer, ctr, size, buffer, iters, now, stdout,
                   scratch, tmpVisible, errs, exitStatus, emitted, lastWrite,
                   tread, file, child, startFailed, sigIgn, cmds, resp, stations>>


(* ------------------------------------------------------------------ *)
(* wifistats_iterate                                                   *)
(* ------------------------------------------------------------------ *)

\* the names of the entries of the stations directory, in readdir order
MacOf(i) == CASE i = 1 -> "AA:BB" [] i = 2 -> "CC:DD" [] OTHER -> "EE:" \o Dec(i)

Listing(n) == [i \in 1..n |-> MacOf(i)]

\* what an enumeration of the stations directory can see: it cannot be
\* opened, or it holds 0..MaxStations entries
Dirs == { [opened |-> FALSE, names |-> <<>>] }
        \cup { [opened |-> TRUE, names |-> Listing(n)] : n \in 0..MaxStations }

\* an int of malloc'ed memory that was never assigned: zero, a number that is
\* no open descriptor, or the number of a descriptor the process has open
\* when the record is reset (standard output; the first descriptor the run
\* opened: the scratch file in staged mode, else the timer; the second: the
\* timer in staged mode, else the stream the first record has just opened)
GarbageFds == {0, FdLimit, STDOUT_FILENO, TMPFD, TMPFD + 1}

\* the content of a station's two streams
AirtimeContent == "X"

RcStatsContent == "R"

\* the ticks the model explores: every stream exists, or no station has
\* rc_stats, or the first station lacks rc_stats, or the first station lacks
\* airtime, or the last station lacks both
Presences(n) ==
    LET all == [i \in 1..n |-> [airtime |-> TRUE, rc_stats |-> TRUE]]
    IN  IF n < 1 THEN { all } ELSE
        { all,
          [i \in 1..n |-> [airtime |-> TRUE, rc_stats |-> FALSE]],
          [all EXCEPT ![1] = [airtime |-> TRUE, rc_stats |-> FALSE]],
          [all EXCEPT ![1] = [airtime |-> FALSE, rc_stats |-> TRUE]],
          [all EXCEPT ![n] = [airtime |-> FALSE, rc_stats |-> FALSE]] }

count_stations(dir) == IF ~dir.opened THEN -1 ELSE Len(dir.names)

\* stations_open(): one record per entry, the handles of the first set to -1
\* before the enumeration and those of the record behind the last after it;
\* the other handles keep what the allocation held (g)
RECURSIVE open_loop(_, _, _, _, _)
open_loop(dir, recs, cnt, limit, g) ==
    IF dir = <<>> THEN [cnt |-> cnt, stations |-> recs]
    ELSE LET h == IF cnt = 0 THEN -1 ELSE g
             r == [macaddr |-> Head(dir), rc_stats |-> h, airtime |-> h]
         IN  IF cnt + 1 > limit
             THEN [cnt |-> cnt + 1, stations |-> Append(recs, r)]
             ELSE open_loop(Tail(dir), Append(recs, r), cnt + 1, limit, g)

stations_open(dir, limit, g) ==
    IF ~dir.opened THEN [cnt |-> -1, stations |-> <<>>]
    ELSE open_loop(dir.names, <<>>, 0, limit \div 2, g)

\* close_if_set never closing: the handles of the last tick stay open
close_if_set_never(t, fd) == t

\* if (stations[i].rc_stats) close(stations[i].rc_stats)
close_if_set(t, fd) == IF fd # 0 THEN Close(t, fd) ELSE t

\* the descriptors of table t that are streams of station mac
StreamFds(t, mac) ==
    {fd \in DOMAIN t : t[fd].what \in {"rc_stats", "airtime"} /\ t[fd].mac = mac}

\* the open descriptors among the two handles of record r that are not
\* streams of r's own station
ForeignOf(t, r) ==
    {fd \in {r.rc_stats, r.airtime} :
        fd # 0 /\ IsOpen(t, fd) /\ fd \notin StreamFds(t, r.macaddr)}

Max(x, y) == IF x > y THEN x ELSE y

\* stations_reset(): record after record, the handles the record holds are
\* closed when not zero, then rc_stats and airtime are opened again; an open
\* that fails gives -1.  acc carries the records, the table, the foreign
\* descriptors closed and the peak of open handles of one station
reset_one(acc, i, p, tick) ==
    LET r  == acc.stations[i]
        t1 == close_if_set(acc.fdt, r.rc_stats)
        t2 == close_if_set(t1, r.airtime)
        o1 == OpenAs(t2, p.rc_stats, Entry("rc_stats", r.macaddr, tick))
        o2 == OpenAs(o1.fdt, p.airtime, Entry("airtime", r.macaddr, tick))
        nr == [macaddr |-> r.macaddr, rc_stats |-> o1.fd, airtime |-> o2.fd]
    IN  [stations |-> [acc.stations EXCEPT ![i] = nr],
         fdt |-> o2.fdt,
         foreign |-> acc.foreign \cup ForeignOf(acc.fdt, r),
         peak |-> Max(acc.peak, Cardinality(StreamFds(o2.fdt, r.macaddr)))]

RECURSIVE reset_loop(_, _, _, _, _)
reset_loop(acc, i, cnt, present, tick) ==
    IF i > cnt THEN acc
    ELSE CHOOSE res \in {reset_loop(nx, i + 1, cnt, present, tick) :
                            nx \in {reset_one(acc, i, present[i], tick)}} : TRUE

stations_reset(recs, cnt, present, t, tick) ==
    reset_loop([stations |-> recs, fdt |-> t, foreign |-> {}, peak |-> 0],
               1, cnt, present, tick)

\* the bytes of the stream a descriptor refers to
StreamBytes(e) == CASE e.what = "airtime"  -> <<AirtimeContent>>
                    [] e.what = "rc_stats" -> <<RcStatsContent>>
                    [] OTHER -> <<>>

\* read(handle, &buf[size], 8192) in stations_read(): the bytes of the stream
\* the handle refers to.  A handle that is closed gives nothing, and so does
\* a descriptor that was read before in the same pass (two records holding
\* the same number share one descriptor, and the first read left its offset
\* at the end)
read_stream(t, fd, used) ==
    IF fd \in used \/ ~IsOpen(t, fd) THEN <<>> ELSE StreamBytes(t[fd])

\* the descriptors read so far, with the handle fd when it is read
ReadAlso(used, fd) == IF fd > 0 THEN used \cup {fd} ELSE used

\* stations_read with the two streams of a station in the other order
RECURSIVE stations_read_rc_first(_, _, _, _, _)
stations_read_rc_first(recs, t, i, cnt, used) ==
    IF i > cnt THEN <<>>
    ELSE <<"Station: " \o recs[i].macaddr \o "\n">>
         \o (IF recs[i].rc_stats > 0
             THEN <<"RC stats:\n">> \o read_stream(t, recs[i].rc_stats, used)
             ELSE <<>>)
         \o (IF recs[i].airtime > 0
             THEN <<"Airtime:\n">>
                  \o read_stream(t, recs[i].airtime,
                                 ReadAlso(used, recs[i].rc_stats))
             ELSE <<>>)
         \o stations_read_rc_first(recs, t, i + 1, cnt,
                ReadAlso(ReadAlso(used, recs[i].rc_stats), recs[i].airtime))

\* stations_read(): the text of one tick, station after station; used is
\* the set of descriptors the pass has read already
RECURSIVE stations_read(_, _, _, _, _)
stations_read(recs, t, i, cnt, used) ==
    IF i > cnt THEN <<>>
    ELSE <<"Station: " \o recs[i].macaddr \o "\n">>
         \o (IF recs[i].airtime > 0
             THEN <<"Airtime:\n">> \o read_stream(t, recs[i].airtime, used)
             ELSE <<>>)
         \o (IF recs[i].rc_stats > 0
             THEN <<"RC stats:\n">>
                  \o read_stream(t, recs[i].rc_stats,
                                 ReadAlso(used, recs[i].airtime))
             ELSE <<>>)
         \o stations_read(recs, t, i + 1, cnt,
                ReadAlso(ReadAlso(used, recs[i].airtime), recs[i].rc_stats))

\* wifi_again going round once more when the counter has reached the target
wifi_again_late(n, count) == n <= count

\* while (ctr < a->count)
wifi_again(n, count) == n < count

\* wifi_none_found taking only a failed enumeration as nothing to sample
wifi_none_found_negative(n) == n < 0

\* c < 1 behind stations_open(): nothing to sample
wifi_none_found(n) == n < 1

\* malloc(2*c*sizeof(station_stats)): the records run() allocates for the c
\* entries count_stations() saw
records_allocated(c1) == 2 * c1

\* the records stations_open() writes to: record 0 before the enumeration,
\* one per entry it records, and the record behind the last
records_written(dir, limit) ==
    IF ~dir.opened THEN 1 ELSE stations_open(dir, limit, 0).cnt + 1

\* a write behind the allocation is undefined: the run goes on as if nothing
\* had happened, or the process is killed
StrayWriteKills(dir1, dir2) ==
    IF /\ count_stations(dir1) > 0
       /\ records_written(dir2, STATION_LIMIT)
              > records_allocated(count_stations(dir1))
    THEN BOOLEAN ELSE {FALSE}

\* run(), to the arming of the timer: the sink, the two enumerations of the
\* stations directory, the allocation
WifiRunStart ==
    /\ prog = WIFI /\ pc = "start"
    /\ \E fd \in (IF a.buffer THEN MkstempResults ELSE {STDOUT_FILENO}),
          dir1 \in Dirs, dir2 \in Dirs, g \in GarbageFds :
        \E crash \in StrayWriteKills(dir1, dir2) :
        LET c1 == count_stations(dir1)
            allocates == ~(a.buffer /\ fd = 0) /\ a.dev # NULL /\ c1 > 0
            so == stations_open(dir2, STATION_LIMIT, g)
            dirErr(d) == IF ~d.opened
                         THEN {"Error : Failed to open stations directory"} ELSE {}
        IN
        /\ out' = fd
        /\ nalloc' = IF allocates THEN records_allocated(c1) ELSE nalloc
        /\ nwritten' = IF allocates THEN records_written(dir2, STATION_LIMIT)
                       ELSE nwritten
        /\ IF a.buffer /\ fd = 0
           THEN /\ tmpVisible' = TRUE
                /\ errs' = errs \cup {"Unable to create tmpfile"}
                /\ pc' = "exited" /\ exitStatus' = EXIT_FAILURE_STATUS
                /\ UNCHANGED <<stdout, stations, timer, c, fdt>>
           ELSE
           /\ tmpVisible' = FALSE
           /\ fdt' = IF a.dev # NULL /\ c1 > 0 /\ ~wifi_none_found(so.cnt)
                     THEN WithTimer(WithSink(fdt, fd))
                     ELSE WithSink(fdt, fd)
           /\ IF a.dev = NULL
              THEN /\ errs' = errs \cup {"Must specify wifi device"}
                   /\ stdout' = Append(stdout, UsageSeg(WIFI))
                   /\ pc' = "exited" /\ exitStatus' = EXIT_FAILURE_STATUS
                   /\ UNCHANGED <<stations, timer, c>>
              ELSE IF ~(c1 > 0)
              THEN /\ c' = c1
                   /\ errs' = errs \cup dirErr(dir1) \cup {"No stations found"}
                   /\ stdout' = Append(stdout, UsageSeg(WIFI))
                   /\ pc' = "exited" /\ exitStatus' = EXIT_FAILURE_STATUS
                   /\ UNCHANGED <<stations, timer>>
              ELSE IF wifi_none_found(so.cnt)
              THEN /\ c' = so.cnt
                   /\ errs' = errs \cup dirErr(dir2) \cup {"No stations found"}
                   /\ stdout' = Append(stdout, UsageSeg(WIFI))
                   /\ pc' = "exited" /\ exitStatus' = EXIT_FAILURE_STATUS
                   /\ UNCHANGED <<stations, timer>>
              ELSE /\ c' = so.cnt
                   /\ stations' = so.stations
                   /\ timer' = IF a.interval = "positive" THEN "armed" ELSE "unarmed"
                   /\ pc' = IF crash THEN "killed" ELSE "loop"
                   /\ UNCHANGED <<stdout, errs, exitStatus>>
    /\ UNCHANGED <<fired, tfails, caps, calls, reported, foreign, peak>>
    /\ UNCHANGED <<answered, part>>
    /\ UNCHANGED <<slen, prog, a, ctr, size, buffer, iters, now, scratch, emitted,
                   lastWrite, tread, file, child, startFailed, sigIgn, cmds, resp>>

\* a write on descriptor fd reaches the sink when fd still refers to it
WriteLands(t, fd, what) == fd \in DOMAIN t /\ t[fd].what = what

\* read(timer, &fired, 8) on a number that no longer refers to the timer
\* does not return 8 bytes: fired keeps what the stack held
TimerReadsOn(t, o) ==
    IF WriteLands(t, timer_fd(o), "timer") THEN TimerReads
    ELSE [ok : {FALSE}, fired : GarbageFired]

\* one iteration of run()'s do-while; Reads is what the read of the timer can
\* yield in it and Pres the streams that can be opened in it
WifiRunLoopOn(Reads, Pres) ==
    /\ prog = WIFI /\ pc = "loop" /\ iters < MaxIter
    /\ IF timer # "armed" /\ WriteLands(fdt, timer_fd(out), "timer")
       THEN /\ pc' = "blocked"
            /\ UNCHANGED <<ctr, size, buffer, iters, now, stdout, scratch, errs,
                           emitted, lastWrite, tread, fired, tfails, stations,
                           fdt, calls, reported, foreign, peak>>
       ELSE \E tr \in Reads, present \in Pres :
              \E rs \in {stations_reset(stations, c, present, fdt, iters + 1)} :
              LET t == Tick(now)
                  text == stations_read(rs.stations, rs.fdt, 1, c, {})
                  n == TextLen(text)
                  w == IF n > 0
                       THEN wifi_result(out, n, BUFFERSIZE, text, t)
                       ELSE wifi_result(out, 0, BUFFERSIZE, text, t)
                  lost == /\ w.fd # STDERR_FILENO
                          /\ ~WriteLands(rs.fdt, w.fd, "stdout")
                          /\ ~WriteLands(rs.fdt, w.fd, "scratch")
              IN  /\ tread' = IF tr.ok THEN "ok" ELSE "fail"
                  /\ fired' = tr.fired
                  /\ tfails' = (tfails \/ ~tr.ok)
                  /\ ctr' = ctr + tr.fired
                  /\ reported' = reported + (IF tr.ok THEN tr.fired ELSE 0)
                  /\ iters' = iters + 1
                  /\ now' = t
                  /\ stations' = rs.stations
                  /\ fdt' = rs.fdt
                  /\ foreign' = foreign \cup rs.foreign
                  /\ peak' = Max(peak, rs.peak)
                  /\ size' = n
                  /\ buffer' = text
                  /\ calls' = calls + 1
                  /\ lastWrite' = w
                  /\ emitted' = EmittedAfter(w)
                  /\ stdout' = IF WriteLands(rs.fdt, w.fd, "stdout")
                               THEN stdout \o w.segs ELSE stdout
                  /\ scratch' = IF WriteLands(rs.fdt, w.fd, "scratch")
                                THEN scratch \o w.segs ELSE scratch
                  /\ errs' = errs \cup ResultErrs(WIFI, w)
                            \cup (IF lost THEN {"Write failed - out of disk?"} ELSE {})
                            \cup (IF tr.ok THEN {} ELSE {"reading timer"})
                            \cup (IF n > 0 THEN {} ELSE {"reading file"})
                  /\ pc' = IF wifi_again(ctr', a.count) THEN "loop" ELSE "flush"
    /\ UNCHANGED <<c, caps>>
    /\ UNCHANGED <<nalloc, nwritten, answered, part>>
    /\ UNCHANGED <<slen, prog, a, out, timer, tmpVisible, exitStatus, file, child,
                   startFailed, sigIgn, cmds, resp>>

\* every stream of every station can be opened
AllPresent(n) == [i \in 1..n |-> [airtime |-> TRUE, rc_stats |-> TRUE]]

\* the iteration when the streams are all there and the timer is read with
\* every outcome
WifiRunLoop == WifiRunLoopOn(TimerReadsOn(fdt, out), {AllPresent(c)})

\* the timer read when one period has passed; on a number that no longer
\* refers to the timer the read does not return 8 bytes
SteadyReadsOn(t, o) ==
    IF WriteLands(t, timer_fd(o), "timer") THEN { [ok |-> TRUE, fired |-> 1] }
    ELSE [ok : {FALSE}, fired : GarbageFired]

\* the iteration when the timer is steady and streams come and go
WifiRunLoopStreams == WifiRunLoopOn(SteadyReadsOn(fdt, out), Presences(c))

\* what the copy loop reads back from descriptor out: the scratch file, or,
\* when the number has come to refer to a station's stream, that stream
StraySeg(e) == [kind |-> "stray", len |-> TextLen(StreamBytes(e)),
                text |-> StreamBytes(e)]

WifiReadBack(t, o) ==
    IF ~IsOpen(t, o) THEN <<>>
    ELSE IF t[o].what = "scratch" THEN scratch
    ELSE IF t[o].what \in {"rc_stats", "airtime"} THEN <<StraySeg(t[o])>>
    ELSE <<>>

\* close(out), close(timer), stations_close()
WifiClosed(t, o, recs, cnt) ==
    LET closing == {o, timer_fd(o)}
                   \cup {recs[i].rc_stats : i \in 1..cnt}
                   \cup {recs[i].airtime : i \in 1..cnt}
    IN  [fd \in DOMAIN t |-> IF fd \in closing THEN Free ELSE t[fd]]

\* run(), after the loop: the staged output is copied, everything is closed
WifiRunFlush ==
    /\ prog = WIFI /\ pc = "flush"
    /\ stdout' = IF a.buffer /\ WriteLands(fdt, STDOUT_FILENO, "stdout")
                 THEN stdout \o WifiReadBack(fdt, out) ELSE stdout
    /\ fdt' = WifiClosed(fdt, out, stations, c)
    /\ pc' = "done" /\ exitStatus' = 0
    /\ UNCHANGED <<fired, tfails, c, caps, calls, reported, foreign, peak>>
    /\ UNCHANGED <<nalloc, nwritten, answered, part>>
    /\ UNCHANGED <<slen, prog, a, out, timer, ctr, size, buffer, iters, now, scratch,
                   tmpVisible, errs, emitted, lastWrite, tread, file, child,
                   startFailed, sigIgn, cmds, resp, stations>>

(* ------------------------------------------------------------------ *)
(* The runs                                                            *)
(* ------------------------------------------------------------------ *)

Args(p) == [count : 0..MaxCount, buffer : BOOLEAN, interval : Intervals,
            filename : IF p = FILE THEN {NULL, "f"} ELSE {NULL},
            dev : IF p = WIFI THEN {NULL, "wlan0"} ELSE {NULL}]

Init ==
    /\ prog \in Programs
    /\ a \in Args(prog)
    /\ pc = "start"
    /\ out = -1
    /\ timer = "none"
    /\ ctr = 0
    /\ size = 0
    /\ buffer = IF prog = FILE THEN <<0, 0, 0>> ELSE <<>>
    /\ iters = 0
    /\ now = [sec |-> StartSec, nsec |-> StartNsec]
    /\ stdout = <<>>
    /\ scratch = <<>>
    /\ tmpVisible = FALSE
    /\ errs = {}
    /\ exitStatus = -1
    /\ emitted = <<>>
    /\ lastWrite = NoWrite
    /\ tread = "none"
    /\ fired = 0
    /\ tfails = FALSE
    /\ c = 0
    /\ file \in (IF prog = FILE THEN Files ELSE {[len |-> 0, bytes |-> <<>>]})
    /\ child = "none"
    /\ startFailed = FALSE
    /\ sigIgn \in (IF prog = TC THEN BOOLEAN ELSE {FALSE})
    /\ cmds = 0
    /\ resp = <<>>
    /\ stations = <<>>
    /\ fdt = StdTable
    /\ caps = <<>>
    /\ calls = 0
    /\ reported = 0
    /\ foreign = {}
    /\ peak = 0
    /\ slen = [airtime |-> Len(AirtimeContent), rc_stats |-> Len(RcStatsContent)]
    /\ nalloc = 0 /\ nwritten = 0 /\ answered = 0 /\ part = 0

Next ==
    \/ FileRunStart \/ FileRunLoop \/ FileRunFlush
    \/ ForkitStart \/ ForkitWrite \/ ForkitSample \/ ForkitFlush \/ ForkitReap
    \/ ChildExecOk \/ ChildExecFail \/ ChildRespond \/ ChildExit \/ ChildWedge
    \/ WifiRunStart \/ WifiRunLoop \/ WifiRunFlush
    \/ Terminate

Spec == Init /\ [][Next]_vars

\* wifistats_iterate on a device with stations whose streams come and go
InitStations == Init /\ prog = WIFI /\ a.dev # NULL

NextStations == WifiRunStart \/ WifiRunLoopStreams \/ WifiRunFlush \/ Terminate

SpecStations == InitStations /\ [][NextStations]_vars

\* tc_iterate with a steady timer and a child that writes its responses in
\* one piece or in two
InitPipe == Init /\ prog = TC

NextPipe ==
    \/ ForkitStart \/ ForkitWrite \/ ForkitSampleSteady \/ ForkitFlush \/ ForkitReap
    \/ ChildExecOk \/ ChildExecFail \/ ChildRespondPieces \/ ChildExit \/ ChildWedge
    \/ Terminate

SpecPipe == InitPipe /\ [][NextPipe]_vars

\* the same runs, with the processes scheduled: a step that can be taken is
\* taken in the end
SpecLive == Init /\ [][Next]_vars /\ WF_vars(Next)


(* ------------------------------------------------------------------ *)
(* result() on its own: every program, sizes around the margin          *)
(* ------------------------------------------------------------------ *)

\* char mtime[40] of wifistats_iterate's result()
MTIME_LEN == 40

ResultSizes == { 0, 1, BUFFERSIZE - MARGIN - 2, BUFFERSIZE - MARGIN - 1,
                 BUFFERSIZE - MARGIN, BUFFERSIZE - MARGIN + 1,
                 BUFFERSIZE - 1, BUFFERSIZE }

ResultClocks == { [sec |-> StartSec, nsec |-> StartNsec],
                  [sec |-> StartSec + 1, nsec |-> 0] }

InitResult ==
    /\ prog \in Programs
    /\ out \in {STDOUT_FILENO, TMPFD, -1}
    /\ a = [count |-> 1, buffer |-> (out # STDOUT_FILENO), interval |-> "positive",
            filename |-> IF prog = FILE THEN "f" ELSE NULL,
            dev |-> IF prog = WIFI THEN "wlan0" ELSE NULL]
    /\ pc = "result"
    /\ timer = "armed"
    /\ ctr = 0
    /\ size \in ResultSizes
    /\ buffer = IF prog = FILE THEN <<55, 55, 55>> ELSE <<Response(1)>>
    /\ iters = 0
    /\ now \in ResultClocks
    /\ stdout = <<>>
    /\ scratch = <<>>
    /\ tmpVisible = FALSE
    /\ errs = {}
    /\ exitStatus = -1
    /\ emitted = <<>>
    /\ lastWrite = NoWrite
    /\ tread = "none"
    /\ fired = 0
    /\ tfails = FALSE
    /\ c = 0
    /\ file = [len |-> 0, bytes |-> <<>>]
    /\ child = "none"
    /\ startFailed = FALSE
    /\ sigIgn = FALSE
    /\ cmds = 0
    /\ resp = <<>>
    /\ stations = <<>>
    /\ fdt = StdTable
    /\ caps = <<>>
    /\ calls = 0
    /\ reported = 0
    /\ foreign = {}
    /\ peak = 0
    /\ slen = [airtime |-> Len(AirtimeContent), rc_stats |-> Len(RcStatsContent)]
    /\ nalloc = 0 /\ nwritten = 0 /\ answered = 0 /\ part = 0

ResultCall ==
    /\ pc = "result"
    /\ LET w == CASE prog = FILE -> file_result(out, size, BUFFERSIZE, buffer, now)
                  [] prog = TC   -> tc_result(out, size, BUFFERSIZE, buffer, now)
                  [] prog = WIFI -> wifi_result(out, size, BUFFERSIZE, buffer, now)
       IN  /\ lastWrite' = w
           /\ emitted' = EmittedAfter(w)
           /\ stdout' = SinkAfter(stdout, STDOUT_FILENO, w)
           /\ scratch' = SinkAfter(scratch, TMPFD, w)
           /\ errs' = errs \cup ResultErrs(prog, w)
    /\ pc' = "resulted"
    /\ UNCHANGED <<nalloc, nwritten, answered, part>>
    /\ UNCHANGED <<slen, prog, a, out, timer, ctr, size, buffer, iters, now,
                   tmpVisible, exitStatus, tread, fired, tfails, c, file, child,
                   startFailed, sigIgn, cmds, resp, stations, fdt, caps, calls,
                   reported, foreign, peak>>

NextResult == ResultCall

SpecResult == InitResult /\ [][NextResult]_vars

(* ------------------------------------------------------------------ *)
(* stations_read() on its own: many stations, streams up to the cap     *)
(* ------------------------------------------------------------------ *)

\* the most bytes one read() of a stream is asked for
STREAM_CAP == 8192

\* the most records stations_open() returns under limit: it stops once the
\* count has passed limit / 2
MostStations(limit) == limit \div 2 + 1

\* what station i adds to the write offset of stations_read() when its two
\* streams are open and hold lens.airtime and lens.rc_stats bytes
station_size(i, lens) ==
    Len("Station: " \o MacOf(i) \o "\n")
    + Len("Airtime:\n") + Min(lens.airtime, STREAM_CAP)
    + Len("RC stats:\n") + Min(lens.rc_stats, STREAM_CAP)

\* the write offset stations_read() has reached behind stations lo .. hi,
\* starting from 0: the sum of what each adds (summed by halves)
RECURSIVE stations_read_size(_, _, _)
stations_read_size(lo, hi, lens) ==
    IF lo > hi THEN 0
    ELSE IF lo = hi THEN station_size(lo, lens)
    ELSE stations_read_size(lo, (lo + hi) \div 2, lens)
         + stations_read_size((lo + hi) \div 2 + 1, hi, lens)

\* numbers of stations: few, the two about the capacity of the working
\* buffer with full streams, and the most that discovery returns
ReadCounts == {1, 2, BUFFERSIZE \div (2 * STREAM_CAP) - 1,
               BUFFERSIZE \div (2 * STREAM_CAP), MostStations(STATION_LIMIT)}

StreamLens == {0, 1, STREAM_CAP - 1, STREAM_CAP, STREAM_CAP + 1}

InitRead ==
    /\ prog = WIFI
    /\ a = [count |-> 1, buffer |-> FALSE, interval |-> "positive",
            filename |-> NULL, dev |-> "wlan0"]
    /\ pc = "read"
    /\ out = STDOUT_FILENO
    /\ timer = "armed"
    /\ ctr = 0
    /\ size = 0
    /\ buffer = <<>>
    /\ iters = 0
    /\ now = [sec |-> StartSec, nsec |-> StartNsec]
    /\ stdout = <<>>
    /\ scratch = <<>>
    /\ tmpVisible = FALSE
    /\ errs = {}
    /\ exitStatus = -1
    /\ emitted = <<>>
    /\ lastWrite = NoWrite
    /\ tread = "none"
    /\ fired = 0
    /\ tfails = FALSE
    /\ c \in ReadCounts
    /\ file = [len |-> 0, bytes |-> <<>>]
    /\ child = "none"
    /\ startFailed = FALSE
    /\ sigIgn = FALSE
    /\ cmds = 0
    /\ resp = <<>>
    /\ stations = <<>>
    /\ fdt = StdTable
    /\ caps = <<>>
    /\ calls = 0
    /\ reported = 0
    /\ foreign = {}
    /\ peak = 0
    /\ slen \in [airtime : StreamLens, rc_stats : StreamLens]
    /\ nalloc = 0 /\ nwritten = 0 /\ answered = 0 /\ part = 0

ReadCall ==
    /\ pc = "read"
    /\ size' = stations_read_size(1, c, slen)
    /\ pc' = "read_done"
    /\ UNCHANGED <<prog, a, out, timer, ctr, buffer, iters, now, stdout, scratch,
                   tmpVisible, errs, exitStatus, emitted, lastWrite, tread,
                   fired, tfails, c, file, child, startFailed, sigIgn, cmds,
                   resp, stations, fdt, caps, calls, reported, foreign, peak,
                   slen, nalloc, nwritten, answered, part>>

NextRead == ReadCall

SpecRead == InitRead /\ [][NextRead]_vars

(* ------------------------------------------------------------------ *)
(* Properties                                                          *)
(* ------------------------------------------------------------------ *)

LoopExited == pc \in {"flush", "reap", "done"}

Kinds(w) == [i \in 1..Len(w.segs) |-> w.segs[i].kind]

SegOf(w, k) == CHOOSE seg \in {w.segs[i] : i \in 1..Len(w.segs)} : seg.kind = k

IsRecord(w) == {w.segs[i].kind : i \in 1..Len(w.segs)} = {"time", "payload", "sep"}
               /\ Len(w.segs) = 3

RECURSIVE Flat(_)
Flat(ws) == IF ws = <<>> THEN <<>> ELSE Head(ws).segs \o Flat(Tail(ws))

IsSnapshotSeg(seg) == seg.kind # "usage"

Snapshots(sink) == SelectSeq(sink, IsSnapshotSeg)

\* C1 (as amended): when a sampling loop exits, the tick counter is at least
\* the target N, and it was still below N before the last wait of a loop
\* that waited more than once; it exceeds N when the last report overshoots.
C1_ExitAtOrAboveTarget ==
    LoopExited => /\ ctr >= a.count
                  /\ (iters > 1 => ctr - fired < a.count)

C1_Witness ==
    /\ pc = "flush" /\ ~tfails /\ a.count >= 1 /\ iters > 1
    /\ ctr > a.count

\* C1 (as stated): the tick counter equals exactly N when the loop exits;
\* taken here for a target N of at least 1 and reads of the timer that all
\* report their count.
C1_Original == (LoopExited /\ ~tfails /\ a.count >= 1) => ctr = a.count

\* C2 (as amended): result() makes one write: the complete record on the
\* sink descriptor, inside the capacity, exactly when capacity minus payload
\* size is more than 40; otherwise (at 40 or less) nothing goes to the sink
\* and the 'Buffer Overrun' warning goes to standard error.
C2_RecordIffAboveMargin ==
    pc = "resulted" =>
      IF BUFFERSIZE - size > MARGIN
      THEN /\ lastWrite.fd = out
           /\ emitted = <<lastWrite>>
           /\ IsRecord(lastWrite)
           /\ lastWrite.len = SumLen(lastWrite.segs)
           /\ SegOf(lastWrite, "payload").len = size
           /\ SegOf(lastWrite, "sep").text = SepLine
           /\ IF prog = WIFI
              THEN /\ size <= BUFFERSIZE
                   /\ SegOf(lastWrite, "time").len + 1 <= MTIME_LEN
              ELSE lastWrite.len + 1 <= BUFFERSIZE
           /\ "Buffer Overrun" \notin errs
      ELSE /\ lastWrite = [fd |-> STDERR_FILENO, len |-> OVERRUN_LEN,
                           segs |-> <<WarnSeg>>]
           /\ emitted = <<>> /\ stdout = <<>> /\ scratch = <<>>
           /\ "Buffer Overrun" \in errs

C2_Witness ==
    /\ pc = "resulted" /\ size = BUFFERSIZE - MARGIN
    /\ lastWrite.fd = STDERR_FILENO /\ emitted = <<>>

\* C2 (as stated): a record is written exactly when capacity minus payload
\* size leaves at least the margin of 40 bytes.
C2_Original ==
    pc = "resulted" =>
      ((lastWrite.fd # STDERR_FILENO) <=> (BUFFERSIZE - size >= MARGIN))

\* C3 (as amended): every record is three segments: in wifistats_iterate the
\* Time line, the payload, the '---' line; in file_iterate and tc_iterate the
\* payload first, then the Time line, then the '---' line.  The Time line has
\* the seconds, a dot, nine digits and a line break.
C3_SegmentOrder ==
    \A i \in 1..Len(emitted) :
        /\ Kinds(emitted[i]) = IF prog = WIFI THEN <<"time", "payload", "sep">>
                               ELSE <<"payload", "time", "sep">>
        /\ SegOf(emitted[i], "sep").text = SepLine
        /\ SegOf(emitted[i], "time").len
             = Len("Time: ") + Len(Dec(StartSec)) + Len(".") + 9 + Len("\n")

C3_Witness ==
    /\ prog = FILE /\ emitted # <<>>
    /\ emitted[1].segs[1].kind = "payload" /\ emitted[1].segs[1].len > 0
    /\ emitted[1].segs[2].kind = "time"

\* C3 (as stated): every record of every program is the Time line first, then
\* the payload, then the '---' line.
C3_Original ==
    \A i \in 1..Len(emitted) : Kinds(emitted[i]) = <<"time", "payload", "sep">>

\* C4: in staged mode nothing of a record is on standard output before the
\* loop has ended, and at the end standard output holds exactly what direct
\* mode would have written: every record, once, in order.
C4_Original ==
    a.buffer => /\ (pc \in {"start", "loop", "wrote", "flush"}
                      => Snapshots(stdout) = <<>>)
                /\ (pc = "done" => Snapshots(stdout) = Flat(emitted))

\* C5: in staged mode the scratch file's name is gone from the filesystem
\* once the startup is over, whatever way the process ends.
C5_Original == (a.buffer /\ pc # "start") => ~tmpVisible

\* C6 (as amended): in file_iterate a capture in the sampling loop that reads
\* nothing is reported, result() is still called with an empty payload, and
\* the run goes on; the first capture, before the loop, is fatal when it
\* reads nothing: the run ends with status 255 before any record.
C6_LoopCaptureFailureRecovered ==
    prog = FILE =>
      /\ (iters >= 1 /\ size = 0) =>
            /\ "reading file" \in errs
            /\ lastWrite.fd = out
            /\ Kinds(lastWrite) = <<"payload", "time", "sep">>
            /\ SegOf(lastWrite, "payload").len = 0
            /\ emitted # <<>> /\ emitted[Len(emitted)] = lastWrite
            /\ pc # "exited"
      /\ (pc = "exited" /\ a.filename # NULL) =>
            /\ "Unable to read file" \in errs
            /\ iters = 0 /\ emitted = <<>>
            /\ exitStatus = EXIT_FAILURE_STATUS

C6_Witness ==
    /\ prog = FILE /\ pc = "loop" /\ iters >= 1 /\ size = 0
    /\ "reading file" \in errs

\* C6 (as stated): no capture failure aborts the run, the first included.
C6_Original == (prog = FILE /\ a.filename # NULL) => pc # "exited"

\* C7: a read of the timer that fails is logged and counts as zero periods.
C7_Original == tread = "fail" => (fired = 0 /\ "reading timer" \in errs)

\* C8: in tc_iterate, when the child fails to start, the parent never enters
\* the sampling loop and emits no snapshot.
C8_Original ==
    (prog = TC /\ startFailed) => (pc \in {"start", "exited"} /\ emitted = <<>>)

\* C9: in tc_iterate, with a child that did start, a failed write or read in
\* the loop never ends the run early or stops it: the parent goes on to the
\* tick target and the teardown.
C9_Original ==
    (prog = TC /\ timer = "armed" /\ ~startFailed)
        => pc \notin {"sigpipe", "blocked"}

\* C10: in wifistats_iterate, when the stations directory cannot be opened
\* or has no entry, the run ends with the diagnostic and a non-zero status,
\* the timer never armed and no snapshot written.
C10_NoStationsIsFatal ==
    (prog = WIFI /\ pc # "start" /\ a.dev # NULL /\ c < 1) =>
        /\ pc = "exited"
        /\ exitStatus = EXIT_FAILURE_STATUS /\ exitStatus # 0
        /\ "No stations found" \in errs
        /\ timer = "none"
        /\ emitted = <<>> /\ scratch = <<>> /\ Snapshots(stdout) = <<>>

C10_Witness ==
    /\ prog = WIFI /\ pc = "exited" /\ a.dev # NULL /\ c = -1
    /\ "Error : Failed to open stations directory" \in errs

(* ------------------------------------------------------------------ *)
(* wifistats_iterate: the text of one tick                             *)
(* ------------------------------------------------------------------ *)

RECURSIVE Join(_)
Join(pieces) == IF pieces = <<>> THEN "" ELSE Head(pieces) \o Join(Tail(pieces))

StationLine(i) == "Station: " \o stations[i].macaddr \o "\n"

PosOf(piece) == CHOOSE k \in 1..Len(buffer) : buffer[k] = piece

\* the pieces of the working buffer between station i's line and the next
\* station's line
BlockOf(i) ==
    SubSeq(buffer, PosOf(StationLine(i)) + 1,
           IF i < c THEN PosOf(StationLine(i + 1)) - 1 ELSE Len(buffer))

Pieces(seq) == {seq[k] : k \in 1..Len(seq)}

\* the last tick of wifistats_iterate has sampled the stations
Sampled == prog = WIFI /\ iters >= 1 /\ calls >= 1

\* C11: in wifistats_iterate a stream that could not be opened in a tick
\* (handle -1) leaves the station's 'Station:' line in the tick's snapshot,
\* with neither label nor content of that stream and with the label and the
\* content of the other stream when that one opened; the run does not abort.
C11_Original ==
    Sampled =>
      /\ pc # "exited" /\ exitStatus \in {-1, 0}
      /\ SegOf(lastWrite, "payload").text = buffer
      /\ \A i \in 1..c :
           /\ StationLine(i) \in Pieces(buffer)
           /\ stations[i].airtime = -1 =>
                /\ "Airtime:\n" \notin Pieces(BlockOf(i))
                /\ AirtimeContent \notin Pieces(BlockOf(i))
           /\ stations[i].rc_stats = -1 =>
                /\ "RC stats:\n" \notin Pieces(BlockOf(i))
                /\ RcStatsContent \notin Pieces(BlockOf(i))
           /\ (stations[i].airtime = -1 /\ stations[i].rc_stats # -1) =>
                BlockOf(i) = <<"RC stats:\n", RcStatsContent>>
           /\ (stations[i].rc_stats = -1 /\ stations[i].airtime # -1) =>
                BlockOf(i) = <<"Airtime:\n", AirtimeContent>>

\* the handles in the order stations_read() reads them: station after
\* station, airtime before rc_stats
ReadOrder ==
    [k \in 1..(2 * c) |->
        IF k % 2 = 1 THEN stations[(k + 1) \div 2].airtime
        ELSE stations[k \div 2].rc_stats]

\* what the k-th read of the pass returns: the content of the stream the
\* handle refers to, and nothing when the handle is closed or when an earlier
\* read of the pass went through the same descriptor
BytesAt(k) ==
    LET h == ReadOrder[k]
    IN  IF ~IsOpen(fdt, h) \/ \E j \in 1..(k - 1) : ReadOrder[j] = h THEN ""
        ELSE CASE fdt[h].what = "airtime"  -> AirtimeContent
               [] fdt[h].what = "rc_stats" -> RcStatsContent
               [] OTHER -> ""

\* the text a station contributes, written down from its handles: its line,
\* then label and bytes of airtime, then label and bytes of rc_stats, and
\* nothing behind the bytes
BlockText(i) ==
    StationLine(i)
    \o (IF stations[i].airtime > 0
        THEN "Airtime:\n" \o BytesAt(2 * i - 1) ELSE "")
    \o (IF stations[i].rc_stats > 0 THEN "RC stats:\n" \o BytesAt(2 * i) ELSE "")

RECURSIVE PayloadText(_)
PayloadText(i) == IF i > c THEN "" ELSE BlockText(i) \o PayloadText(i + 1)

\* stations AA:BB and CC:DD, each with an airtime stream only
TwoAirtimeOnly ==
    /\ Sampled /\ c = 2 /\ pc \in {"loop", "flush"}
    /\ stations[1].macaddr = "AA:BB" /\ stations[2].macaddr = "CC:DD"
    /\ \A i \in 1..2 : stations[i].airtime > 0 /\ stations[i].rc_stats = -1

PayloadOf(cap) == SubSeq(cap.buffer, 1, Min(cap.len, Window))

\* C13: two consecutive captures of the unchanged file return the same
\* length and leave the same payload in the working buffer, however the
\* reads were split into chunks.
C13_Original ==
    prog = FILE =>
      \A k \in 1..(Len(caps) - 1) :
        (caps[k].opened /\ caps[k + 1].opened) =>
            /\ caps[k].len = caps[k + 1].len
            /\ PayloadOf(caps[k]) = PayloadOf(caps[k + 1])

\* C14: every sampling loop is left in the end, whatever period was given:
\* with reads of the timer that succeed and a child that goes on answering,
\* the run does not stay in the loop for ever.
C14_Original ==
    <>(\/ LoopExited
       \/ pc \in {"exited", "killed", "sigpipe"}
       \/ tfails
       \/ child = "wedged")

\* the waits so far have each reported one period
EveryWaitOne == ~tfails /\ reported = iters

C16_Original == prog = FILE => OpenCount(fdt, "source") = 0

\* C17: in file_iterate a capture that opened the file returns the file's
\* length (up to the capacity) and leaves the file's bytes, in order from
\* offset 0, in the working buffer, however the reads were split.
C17_Original ==
    prog = FILE =>
      \A k \in 1..Len(caps) :
        caps[k].opened =>
            /\ caps[k].len = Min(file.len, BUFFERSIZE)
            /\ PayloadOf(caps[k]) = SubSeq(file.bytes, 1, Min(caps[k].len, Window))

(* ------------------------------------------------------------------ *)
(* wifistats_iterate: the stream handles                               *)
(* ------------------------------------------------------------------ *)

HandlesOf(i) == {stations[i].rc_stats, stations[i].airtime}

\* the open descriptors that refer to a station's stream
AllStreamFds(t) == {fd \in DOMAIN t : t[fd].what \in {"rc_stats", "airtime"}}

\* C18: in wifistats_iterate, after every tick's reset a handle a station
\* holds is closed or refers to a stream opened in that tick, no stream
\* descriptor of an earlier tick is still open, every open stream descriptor
\* of a station is one of its two handles, and no station has ever had more
\* than two stream handles open at once (the old two are closed before the
\* new two are opened).
C18_HandlesOpenedEachTick ==
    (Sampled /\ pc # "done") =>
      /\ \A i \in 1..c : \A h \in HandlesOf(i) :
           (h > 0 /\ IsOpen(fdt, h)) =>
                h \in AllStreamFds(fdt) /\ fdt[h].tick = iters
      /\ \A fd \in AllStreamFds(fdt) : fdt[fd].tick = iters
      /\ \A i \in 1..c :
           /\ StreamFds(fdt, stations[i].macaddr) \subseteq HandlesOf(i)
           /\ Cardinality(StreamFds(fdt, stations[i].macaddr)) <= 2
      /\ peak <= 2

C18_Witness ==
    /\ Sampled /\ iters = 2 /\ c = 2 /\ pc # "done"
    /\ \A i \in 1..2 : stations[i].rc_stats > 0 /\ stations[i].airtime > 0
    /\ peak = 2

\* C19: in wifistats_iterate stations_reset() closes no open descriptor but
\* the handles it opened itself for the station at hand: nothing on the first
\* tick, and never the timer, the sink or a standard stream.
C19_Original == prog = WIFI => foreign = {}

\* C20: in wifistats_iterate the write offset of stations_read() stays within
\* the working buffer's capacity for every number of stations discovery
\* returns and every stream size.
C20_Original == pc = "read_done" => size <= BUFFERSIZE

(* ------------------------------------------------------------------ *)
(* wifistats_iterate: the records                                      *)
(* ------------------------------------------------------------------ *)

\* C21: in wifistats_iterate the records stations_open() writes to, the one
\* behind the last included, never exceed the records run() allocated from
\* the count of count_stations(), whatever the two enumerations of the
\* stations directory saw.
C21_Original == prog = WIFI => nwritten <= nalloc

(* ------------------------------------------------------------------ *)
(* tc_iterate: the responses                                           *)
(* ------------------------------------------------------------------ *)

\* tc is running and has been since the first command line was written
Answering == prog = TC /\ child = "tc" /\ ~startFailed /\ errs = {}

\* C22: in tc_iterate the payload of the snapshot emitted in iteration k is
\* the child's complete response to the command line written in iteration k
\* and nothing else, however the child's output is split across reads.
C22_Original ==
    Answering =>
      \A k \in 1..Len(emitted) :
          Join(SegOf(emitted[k], "payload").text) = Response(k)

====
